---- MODULE Spec2Model ----
(***************************************************************************)
(* A model of the custom-ip-masks forwarding proxy:                        *)
(*   - utils.RateLimiter      (sliding-window admission control)           *)
(*   - utils.ProxyChain       (failure-aware rotation over upstream pool)  *)
(*   - ProxyServer helpers    (_get_target_url, _prepare_headers)          *)
(*   - ProxyServer._handle_request (the request pipeline)                  *)
(* Each component has its own specification over the shared variables; a   *)
(* specification holds the variables of the other components still.        *)
(***************************************************************************)
EXTENDS Integers, Sequences, FiniteSets, TLC

VARIABLES
    \* ---- clock (time.time()) ----
    now,
    \* ---- utils.RateLimiter ----
    max_requests,       \* self.max_requests
    window_seconds,     \* self.window_seconds
    requests,           \* self.requests: identifier -> deque of timestamps
    calls,              \* history: the is_allowed calls made so far and what they returned
    reset,              \* history: the last get_reset_time call and what it returned
    lt,                 \* one record per thread inside is_allowed: its position and locals
    \* ---- utils.ProxyChain ----
    proxies,            \* self.proxies
    current_index,      \* self.current_index
    failed_proxies,     \* self.failed_proxies
    last,               \* history: the last ProxyChain call, its pre-state and result
    nextLog,            \* history: get_next_proxy calls since the last mark_proxy_failed
    ct,                 \* one record per thread inside get_next_proxy: its position and locals
    \* ---- proxy_server.ProxyServer ----
    config,             \* self.config
    request_count,      \* self.request_count
    th,                 \* one record per handler thread running _handle_request
    arrivals,           \* history: inbound requests received so far
    admitted,           \* history: <<client, time>> of requests let through the rate-limit check
    \* ---- the helper functions applied on their own ----
    inbound,            \* the inbound request: args, headers, path
    resolved,           \* what _get_target_url returned for it
    prepared,           \* what _prepare_headers returned for it
    upstream_response,  \* the upstream response handed to _create_response
    built               \* what _create_response returned for it

limiterVars == <<max_requests, window_seconds, requests, calls, reset, lt>>
chainVars   == <<proxies, current_index, failed_proxies, last, nextLog, ct>>
serverVars  == <<config, request_count, th, arrivals, admitted>>
helperVars  == <<inbound, resolved, prepared>>
responseVars == <<upstream_response, built>>
vars        == <<now, limiterVars, chainVars, serverVars, helperVars, responseVars>>

\* ------------------------------------------------------------------ bounds
MaxClock == 61          \* the clock is not advanced past this reading
MaxCalls == 4           \* RateLimiter calls recorded in one behaviour
MaxPool == 3            \* longest upstream pool drawn
MaxChainCalls == 5      \* get_next_proxy calls between two mark_proxy_failed
MaxHeaders == 2         \* inbound headers drawn besides X-Target-URL
MaxArrivals == 3        \* inbound requests received in one behaviour

\* Clock advances: the readings 0, 10, 20, ..., 60 and 41, 51, 61 are reachable,
\* so a timestamp can be exactly 60 s old (0 vs 60) or just older (0 vs 61).
TickSteps == {10, 41}

\* Python's None
None == [none |-> TRUE]

\* a result not computed yet
Unset == [unset |-> TRUE]

\* ------------------------------------------------------------------ clock
\* time.time() is read as non-decreasing.
Tick(d) ==
    /\ now + d <= MaxClock
    /\ now' = now + d

\* ============================================================ RateLimiter
Identifiers == {"A", "B"}
RequestLimits == {0, 1, 2}      \* max_requests values drawn at construction
Windows == {20, 60}             \* window_seconds values drawn at construction

\* self.requests = defaultdict(deque): reading a missing key yields an empty deque
Lookup(reqs, id) == IF id \in DOMAIN reqs THEN reqs[id] ELSE <<>>

\* assignment into the dictionary (also what a defaultdict read of a new key does)
Put_all(reqs, id, q) == [k \in (DOMAIN reqs) \cup {id} |-> q]
Put(reqs, id, q) == [k \in (DOMAIN reqs) \cup {id} |-> IF k = id THEN q ELSE reqs[k]]

\* window_start = now - self.window_seconds
WindowStart_wide(t, w) == t - w - 1
WindowStart(t, w) == t - w

\* self.requests[identifier][0] < window_start
Expired_le(ts, ws) == ts <= ws
Expired(ts, ws) == ts < ws

\* while self.requests[identifier] and ...[0] < window_start: popleft()
RECURSIVE EvictOld(_, _)
EvictOld(q, ws) ==
    IF q # <<>> /\ Expired(Head(q), ws) THEN EvictOld(Tail(q), ws) ELSE q

\* len(self.requests[identifier]) < self.max_requests
UnderLimit_le(q, m) == Len(q) <= m
UnderLimit_always(q, m) == TRUE
UnderLimit(q, m) == Len(q) < m

\* RateLimiter.is_allowed(identifier): the deque after the call and the result
IsAllowedResult_checkFirst(reqs, id, t, w, m) ==
    LET q  == EvictOld(Lookup(reqs, id), WindowStart(t, w))
        ok == UnderLimit(Lookup(reqs, id), m)
    IN  [result |-> ok, queue |-> IF ok THEN Append(q, t) ELSE q]
IsAllowedResult(reqs, id, t, w, m) ==
    LET q  == EvictOld(Lookup(reqs, id), WindowStart(t, w))
        ok == UnderLimit(q, m)
    IN  [result |-> ok, queue |-> IF ok THEN Append(q, t) ELSE q]

is_allowed(id) ==
    LET r == IsAllowedResult(requests, id, now, window_seconds, max_requests)
    IN  /\ Len(calls) < MaxCalls
        /\ requests' = Put(requests, id, r.queue)
        /\ calls' = Append(calls, [op |-> "is_allowed", id |-> id, t |-> now,
                                   result |-> r.result])
        /\ UNCHANGED <<now, max_requests, window_seconds, reset, lt>>

\* RateLimiter.get_reset_time(identifier): seconds until the oldest retained
\* timestamp leaves the window, 0 when none is retained
GetResetTime_nofloor(reqs, id, t, w) ==
    LET q == Lookup(reqs, id)
    IN  IF q = <<>> THEN 0 ELSE Head(q) + w - t
GetResetTime(reqs, id, t, w) ==
    LET q == Lookup(reqs, id)
    IN  IF q = <<>> THEN 0
        ELSE IF Head(q) + w - t > 0 THEN Head(q) + w - t ELSE 0

\* the read self.requests[identifier] creates the identifier's empty deque;
\* `after` is the number of is_allowed calls made before this one
get_reset_time(id) ==
    /\ requests' = Put(requests, id, Lookup(requests, id))
    /\ reset' = [id |-> id, t |-> now, after |-> Len(calls),
                 value |-> GetResetTime(requests, id, now, window_seconds)]
    /\ UNCHANGED <<now, max_requests, window_seconds, calls, lt>>

\* ---- is_allowed statement by statement, for callers on several threads ----
LimiterThreads == {"t1", "t2"}
IdleCall == [pc |-> "idle", id |-> "", t |-> 0, window_start |-> 0]

\* calls begun so far: those returned and those under way
Begun == Len(calls) + Cardinality({w \in LimiterThreads : lt[w].pc # "idle"})

\* now = time.time(); window_start = now - self.window_seconds
is_allowed_begin(w) ==
    /\ lt[w].pc = "idle"
    /\ Begun < MaxCalls
    /\ \E id \in Identifiers :
        lt' = [lt EXCEPT ![w] = [pc |-> "while", id |-> id, t |-> now,
                                 window_start |-> WindowStart(now, window_seconds)]]
    /\ UNCHANGED <<now, max_requests, window_seconds, requests, calls, reset>>

\* while self.requests[identifier] and self.requests[identifier][0] < window_start
is_allowed_while(w) ==
    /\ lt[w].pc = "while"
    /\ LET q == Lookup(requests, lt[w].id)
       IN  /\ requests' = Put(requests, lt[w].id, q)
           /\ lt' = [lt EXCEPT ![w].pc =
                        IF q # <<>> /\ Expired(Head(q), lt[w].window_start)
                        THEN "popleft" ELSE "check"]
    /\ UNCHANGED <<now, max_requests, window_seconds, calls, reset>>

\* self.requests[identifier].popleft(): IndexError on a deque emptied meanwhile
is_allowed_popleft(w) ==
    /\ lt[w].pc = "popleft"
    /\ LET q == Lookup(requests, lt[w].id)
       IN  IF q = <<>>
           THEN /\ lt' = [lt EXCEPT ![w] = IdleCall]
                /\ calls' = Append(calls, [op |-> "IndexError", id |-> lt[w].id,
                                           t |-> lt[w].t, result |-> FALSE])
                /\ UNCHANGED requests
           ELSE /\ requests' = Put(requests, lt[w].id, Tail(q))
                /\ lt' = [lt EXCEPT ![w].pc = "while"]
                /\ UNCHANGED calls
    /\ UNCHANGED <<now, max_requests, window_seconds, reset>>

\* if len(self.requests[identifier]) < self.max_requests: ... else return False
is_allowed_check(w) ==
    /\ lt[w].pc = "check"
    /\ IF UnderLimit(Lookup(requests, lt[w].id), max_requests)
       THEN /\ lt' = [lt EXCEPT ![w].pc = "append"]
            /\ UNCHANGED calls
       ELSE /\ lt' = [lt EXCEPT ![w] = IdleCall]
            /\ calls' = Append(calls, [op |-> "is_allowed", id |-> lt[w].id,
                                       t |-> lt[w].t, result |-> FALSE])
    /\ UNCHANGED <<now, max_requests, window_seconds, requests, reset>>

\* self.requests[identifier].append(now); return True
is_allowed_append(w) ==
    /\ lt[w].pc = "append"
    /\ requests' = Put(requests, lt[w].id, Append(Lookup(requests, lt[w].id), lt[w].t))
    /\ lt' = [lt EXCEPT ![w] = IdleCall]
    /\ calls' = Append(calls, [op |-> "is_allowed", id |-> lt[w].id,
                               t |-> lt[w].t, result |-> TRUE])
    /\ UNCHANGED <<now, max_requests, window_seconds, reset>>

\* RateLimiter.__init__
InitLimiter ==
    /\ max_requests \in RequestLimits
    /\ window_seconds \in Windows
    /\ requests = <<>>
    /\ calls = <<>>
    /\ reset = Unset
    /\ lt = [w \in LimiterThreads |-> IdleCall]

IdleLimiter ==
    /\ max_requests = 0
    /\ window_seconds = 60
    /\ requests = <<>>
    /\ calls = <<>>
    /\ reset = Unset
    /\ lt = [w \in LimiterThreads |-> IdleCall]

\* ============================================================= ProxyChain
\* Proxy configurations: dictionaries that may lack the 'http' or the 'https' key
Endpoints == { [http |-> "h1", https |-> "s1"],
               [http |-> "h2"],
               [https |-> "s3"] }

RECURSIVE SeqsUpTo(_, _)
SeqsUpTo(S, n) ==
    IF n = 0 THEN {<<>>}
    ELSE LET shorter == SeqsUpTo(S, n - 1)
         IN  shorter \cup {Append(s, e) : s \in shorter, e \in S}

Pools == SeqsUpTo(Endpoints, MaxPool)

\* proxy.get(key, '')
ProxyGet(proxy, key) == IF key \in DOMAIN proxy THEN proxy[key] ELSE ""

\* proxy_id = f"{proxy.get('http', '')}_{proxy.get('https', '')}"
ProxyId(proxy) == ProxyGet(proxy, "http") \o "_" \o ProxyGet(proxy, "https")

\* self.current_index = (self.current_index + 1) % len(self.proxies)
NextIndex_stay(idx, n) == idx
NextIndex_nowrap(idx, n) == idx + 1
NextIndex(idx, n) == (idx + 1) % n

\* for _ in range(len(self.proxies)): ... ; k is the number of iterations left
RECURSIVE Scan(_, _, _, _)
Scan(ps, idx, failed, k) ==
    IF k = 0 THEN [found |-> FALSE, index |-> idx, pos |-> -1]
    ELSE LET proxy == ps[idx + 1]
             nidx  == NextIndex(idx, Len(ps))
         IN  IF ProxyId(proxy) \notin failed
             THEN [found |-> TRUE, index |-> nidx, pos |-> idx]
             ELSE Scan(ps, nidx, failed, k - 1)

\* self.failed_proxies.clear()
ClearFailed_keep(failed) == failed
ClearFailed(failed) == {}

\* return self.proxies[0] if self.proxies else None
AllFailedReturn_none(ps) == [result |-> None, pos |-> -1]
AllFailedReturn_last(ps) == [result |-> ps[Len(ps)], pos |-> Len(ps) - 1]
AllFailedReturn(ps) ==
    IF ps # <<>> THEN [result |-> ps[1], pos |-> 0]
    ELSE [result |-> None, pos |-> -1]

\* ProxyChain.get_next_proxy: result, position returned, index and failed set after
GetNextProxy_fromZero(ps, idx, failed) ==
    IF ps = <<>> THEN [result |-> None, pos |-> -1, index |-> idx, failed |-> failed]
    ELSE LET s == Scan(ps, 0, failed, Len(ps))
         IN  IF s.found
             THEN [result |-> ps[s.pos + 1], pos |-> s.pos,
                   index |-> NextIndex(idx, Len(ps)), failed |-> failed]
             ELSE [result |-> ps[1], pos |-> 0, index |-> idx, failed |-> {}]
GetNextProxy_unskipped(ps, idx, failed) ==
    IF ps = <<>> THEN [result |-> None, pos |-> -1, index |-> idx, failed |-> failed]
    ELSE LET s == Scan(ps, idx, failed, Len(ps))
         IN  IF s.found
             THEN [result |-> ps[s.pos + 1], pos |-> s.pos,
                   index |-> NextIndex(idx, Len(ps)), failed |-> failed]
             ELSE [result |-> ps[1], pos |-> 0, index |-> s.index, failed |-> {}]
GetNextProxy_resetAdvances(ps, idx, failed) ==
    IF ps = <<>> THEN [result |-> None, pos |-> -1, index |-> idx, failed |-> failed]
    ELSE LET s == Scan(ps, idx, failed, Len(ps))
         IN  IF s.found
             THEN [result |-> ps[s.pos + 1], pos |-> s.pos,
                   index |-> s.index, failed |-> failed]
             ELSE [result |-> ps[1], pos |-> 0, index |-> NextIndex(0, Len(ps)), failed |-> {}]
GetNextProxy(ps, idx, failed) ==
    IF ps = <<>> THEN [result |-> None, pos |-> -1, index |-> idx, failed |-> failed]
    ELSE LET s == Scan(ps, idx, failed, Len(ps))
         IN  IF s.found
             THEN [result |-> ps[s.pos + 1], pos |-> s.pos,
                   index |-> s.index, failed |-> failed]
             ELSE LET r == AllFailedReturn(ps)
                  IN  [result |-> r.result, pos |-> r.pos,
                       index |-> s.index, failed |-> ClearFailed(failed)]

get_next_proxy ==
    LET r == GetNextProxy(proxies, current_index, failed_proxies)
    IN  /\ Len(nextLog) < MaxChainCalls
        /\ current_index' = r.index
        /\ failed_proxies' = r.failed
        /\ last' = [op |-> "get_next_proxy", index |-> current_index,
                    failed |-> failed_proxies, result |-> r.result, pos |-> r.pos]
        /\ nextLog' = Append(nextLog, [start |-> current_index,
                                       failed |-> failed_proxies, pos |-> r.pos])
        /\ UNCHANGED <<proxies, ct>>

\* ProxyChain.mark_proxy_failed(proxy)
MarkFailed_only(failed, proxy) == {ProxyId(proxy)}
MarkFailed(failed, proxy) == failed \cup {ProxyId(proxy)}

mark_proxy_failed(proxy) ==
    /\ failed_proxies' = MarkFailed(failed_proxies, proxy)
    /\ last' = [op |-> "mark_proxy_failed", index |-> current_index,
                failed |-> failed_proxies, result |-> None, pos |-> -1]
    /\ nextLog' = <<>>
    /\ UNCHANGED <<proxies, current_index, ct>>

\* ---- get_next_proxy statement by statement, for callers on several threads ----
ChainThreads == {"t1", "t2"}
IdleScan == [pc |-> "idle", left |-> 0, pos |-> -1, tmp |-> 0, result |-> -1]

\* if not self.proxies: return None; for _ in range(len(self.proxies)):
get_next_begin(w) ==
    /\ ct[w].pc = "idle"
    /\ ct' = [ct EXCEPT ![w] = IF proxies = <<>>
                               THEN [IdleScan EXCEPT !.pc = "returned"]
                               ELSE [IdleScan EXCEPT !.pc = "load", !.left = Len(proxies)]]
    /\ UNCHANGED <<proxies, current_index, failed_proxies, last, nextLog>>

\* proxy = self.proxies[self.current_index]
get_next_load(w) ==
    /\ ct[w].pc = "load"
    /\ ct' = [ct EXCEPT ![w].pos = current_index, ![w].pc = "inc_read"]
    /\ UNCHANGED <<proxies, current_index, failed_proxies, last, nextLog>>

\* self.current_index = (self.current_index + 1) % len(self.proxies), the read
get_next_inc_read(w) ==
    /\ ct[w].pc = "inc_read"
    /\ ct' = [ct EXCEPT ![w].tmp = current_index, ![w].pc = "inc_write"]
    /\ UNCHANGED <<proxies, current_index, failed_proxies, last, nextLog>>

\* self.current_index = (self.current_index + 1) % len(self.proxies), the write
get_next_inc_write(w) ==
    /\ ct[w].pc = "inc_write"
    /\ current_index' = NextIndex(ct[w].tmp, Len(proxies))
    /\ ct' = [ct EXCEPT ![w].pc = "test"]
    /\ UNCHANGED <<proxies, failed_proxies, last, nextLog>>

\* if proxy_id not in self.failed_proxies: return proxy
get_next_test(w) ==
    /\ ct[w].pc = "test"
    /\ ct' = [ct EXCEPT ![w] =
                IF ProxyId(proxies[ct[w].pos + 1]) \notin failed_proxies
                THEN [@ EXCEPT !.result = ct[w].pos, !.pc = "returned"]
                ELSE IF ct[w].left = 1 THEN [@ EXCEPT !.left = 0, !.pc = "reset"]
                     ELSE [@ EXCEPT !.left = @ - 1, !.pc = "load"]]
    /\ UNCHANGED <<proxies, current_index, failed_proxies, last, nextLog>>

\* self.failed_proxies.clear(); return self.proxies[0] if self.proxies else None
get_next_reset(w) ==
    /\ ct[w].pc = "reset"
    /\ failed_proxies' = ClearFailed(failed_proxies)
    /\ ct' = [ct EXCEPT ![w].result = AllFailedReturn(proxies).pos, ![w].pc = "returned"]
    /\ UNCHANGED <<proxies, current_index, last, nextLog>>

\* ProxyChain.__init__(proxies)
InitChain ==
    /\ proxies \in Pools
    /\ current_index = 0
    /\ failed_proxies = {}
    /\ last = [op |-> "init", index |-> 0, failed |-> {}, result |-> None, pos |-> -1]
    /\ nextLog = <<>>
    /\ ct = [w \in ChainThreads |-> IdleScan]

IdleChain ==
    /\ proxies = <<>>
    /\ current_index = 0
    /\ failed_proxies = {}
    /\ last = [op |-> "init", index |-> 0, failed |-> {}, result |-> None, pos |-> -1]
    /\ nextLog = <<>>
    /\ ct = [w \in ChainThreads |-> IdleScan]

\* ==================================================== ProxyServer: config
\* _default_config(): the keys the request path reads
DefaultConfig ==
    [ timeout |-> 30,
      user_agents |-> << "Mozilla/5.0 (Windows NT 10.0; Win64; x64) AppleWebKit/537.36",
                         "Mozilla/5.0 (Macintosh; Intel Mac OS X 10_15_7) AppleWebKit/537.36",
                         "Mozilla/5.0 (X11; Linux x86_64) AppleWebKit/537.36" >>,
      remove_headers |-> << "X-Forwarded-For", "X-Real-IP", "X-Originating-IP",
                            "CF-Connecting-IP" >>,
      add_headers |-> ( "X-Proxy-Server" :> "CustomProxy/1.0"
                     @@ "Accept-Encoding" :> "gzip, deflate"
                     @@ "Connection" :> "close" ),
      rate_limit |-> [enabled |-> FALSE, requests_per_minute |-> 60] ]

\* the configuration start_proxy.main() (and proxy_server.main()) builds: it has no
\* user_agents, remove_headers or add_headers key
QuickStartConfig ==
    [ timeout |-> 30,
      rate_limit |-> [enabled |-> TRUE, requests_per_minute |-> 120] ]

\* the header policy of config.ProxyConfig.__post_init__, as a server configuration
ProxyConfigDefaults ==
    [ timeout |-> 30,
      user_agents |-> << "Mozilla/5.0 (Windows NT 10.0; Win64; x64) AppleWebKit/537.36 (KHTML, like Gecko) Chrome/91.0.4472.124 Safari/537.36",
                         "Mozilla/5.0 (Windows NT 10.0; Win64; x64; rv:89.0) Gecko/20100101 Firefox/89.0" >>,
      remove_headers |-> << "X-Forwarded-For", "X-Real-IP", "X-Originating-IP",
                            "CF-Connecting-IP", "X-Forwarded-Proto", "X-Forwarded-Host",
                            "Via", "Forwarded" >>,
      add_headers |-> ( "Accept-Encoding" :> "gzip, deflate"
                     @@ "Connection" :> "close"
                     @@ "Cache-Control" :> "no-cache" ),
      rate_limit |-> [enabled |-> FALSE, requests_per_minute |-> 60] ]

\* the default configuration with rate limiting switched on at n requests per minute
Throttled(n) ==
    [DefaultConfig EXCEPT !.rate_limit = [enabled |-> TRUE, requests_per_minute |-> n]]

\* the default configuration with an upstream proxy set
UpstreamConfig ==
    DefaultConfig @@ ("upstream_proxy" :> [http |-> "http://up:3128", https |-> "http://up:3128"])

\* _configure_session: session.proxies is empty, or holds config['upstream_proxy']
\* when that is set; it is written once, at construction
SessionProxies(cfg) ==
    IF "upstream_proxy" \in DOMAIN cfg THEN cfg.upstream_proxy ELSE <<>>

\* self.config[key]: a missing key raises KeyError
HasKey(cfg, key) == key \in DOMAIN cfg

\* ================================================== ProxyServer: helpers
\* Header names as the handler sees them.  Besides the configured spellings the set
\* holds other spellings of the same names: the WSGI layer hands the handler
\* title-cased names (X-Real-IP arrives as X-Real-Ip), a dictionary keeps any.
HeaderNames ==
    { "X-Forwarded-For", "x-forwarded-for", "X-Real-IP", "X-Real-Ip",
      "X-Originating-IP", "CF-Connecting-IP", "X-Forwarded-Proto",
      "X-Forwarded-Host", "Via", "Forwarded",
      "Host", "host", "Content-Length",
      "User-Agent", "user-agent", "Accept", "Connection", "connection" }

\* str.lower() on the header names of the model
Lower(name) ==
    CASE name \in {"X-Forwarded-For", "x-forwarded-for"} -> "x-forwarded-for"
      [] name \in {"X-Real-IP", "X-Real-Ip"} -> "x-real-ip"
      [] name = "X-Originating-IP" -> "x-originating-ip"
      [] name = "CF-Connecting-IP" -> "cf-connecting-ip"
      [] name = "X-Forwarded-Proto" -> "x-forwarded-proto"
      [] name = "X-Forwarded-Host" -> "x-forwarded-host"
      [] name = "Via" -> "via"
      [] name = "Forwarded" -> "forwarded"
      [] name \in {"Host", "host"} -> "host"
      [] name \in {"Content-Length", "content-length"} -> "content-length"
      [] name \in {"User-Agent", "user-agent"} -> "user-agent"
      [] name = "Accept" -> "accept"
      [] name \in {"Connection", "connection"} -> "connection"
      [] name \in {"X-Target-URL", "X-Target-Url"} -> "x-target-url"
      [] name = "X-Proxy-Server" -> "x-proxy-server"
      [] name = "Accept-Encoding" -> "accept-encoding"
      [] name = "Cache-Control" -> "cache-control"
      [] name = "Content-Type" -> "content-type"
      [] name \in {"Content-Encoding", "content-encoding"} -> "content-encoding"
      [] name \in {"Transfer-Encoding", "transfer-encoding"} -> "transfer-encoding"
      [] name \in {"X-Proxied-By", "x-proxied-by"} -> "x-proxied-by"
      [] name = "Location" -> "location"
      [] name = "Set-Cookie" -> "set-cookie"
      [] OTHER -> name

\* the headers test_proxy.ProxyTester.test_header_sanitization sends
TestHeaders ==
    ( "X-Forwarded-For" :> "192.168.1.100" @@ "X-Real-IP" :> "10.0.0.1"
   @@ "Via" :> "test-proxy" @@ "X-Originating-IP" :> "172.16.0.1" )

\* a dictionary with the names of S, each with the value the client sent
HeadersOf(S) == [n \in S |-> "client"]

\* d1 with the entries of d2 added (d1 and d2 have no key in common)
Merge(d1, d2) ==
    [n \in (DOMAIN d1) \cup (DOMAIN d2) |-> IF n \in DOMAIN d1 THEN d1[n] ELSE d2[n]]

\* X-Target-URL as sent: absent, empty, or a URL
TargetHeaders == { <<>>, "X-Target-URL" :> "", "X-Target-URL" :> "http://h.example/y" }

InboundHeaders ==
    { Merge(HeadersOf(S), xt) :
        S \in {T \in SUBSET HeaderNames : Cardinality(T) <= MaxHeaders},
        xt \in TargetHeaders }
    \cup { Merge(TestHeaders, xt) : xt \in TargetHeaders }

\* request.args: the `url` query parameter absent, empty, or a URL
QueryArgs == { <<>>, "url" :> "", "url" :> "http://q.example/z" }

\* the request path handed to the route
Paths == { "", "example.com/x", "http://p.example/a", "https://p.example/b" }

\* mapping.get(key): None when the key is absent
MappingGet(m, key) == IF key \in DOMAIN m THEN [value |-> m[key]] ELSE None

\* `if target_url:` -- neither None nor the empty string
Truthy(v) == v # None /\ v.value # ""

\* str.startswith(prefix)
StartsWith(str, prefix) ==
    Len(str) >= Len(prefix) /\ SubSeq(str, 1, Len(prefix)) = prefix

\* path.startswith(('http://', 'https://'))
HasScheme(path) == StartsWith(path, "http://") \/ StartsWith(path, "https://")

\* if path: (prepend 'http://' unless it has a scheme) return path; return None
PathTarget_nocheck(path) ==
    IF ~HasScheme(path) THEN [value |-> "http://" \o path] ELSE [value |-> path]
PathTarget(path) ==
    IF path # ""
    THEN IF ~HasScheme(path) THEN [value |-> "http://" \o path] ELSE [value |-> path]
    ELSE None

\* ProxyServer._get_target_url(path): None or [value |-> the target URL]
GetTargetUrl_headerFirst(args, headers, path) ==
    IF Truthy(MappingGet(headers, "X-Target-URL")) THEN MappingGet(headers, "X-Target-URL")
    ELSE IF Truthy(MappingGet(args, "url")) THEN MappingGet(args, "url")
    ELSE PathTarget(path)
GetTargetUrl(args, headers, path) ==
    IF Truthy(MappingGet(args, "url")) THEN MappingGet(args, "url")
    ELSE IF Truthy(MappingGet(headers, "X-Target-URL"))
         THEN MappingGet(headers, "X-Target-URL")
         ELSE PathTarget(path)

\* headers.pop(name, None) on a dict: the key is matched exactly
DictPop_keep(d, name) == d
DictPop(d, name) == [n \in (DOMAIN d) \ {name} |-> d[n]]

\* for header in self.config['remove_headers']: headers.pop(header, None)
RECURSIVE PopAll(_, _)
PopAll(d, names) ==
    IF names = <<>> THEN d ELSE PopAll(DictPop(d, Head(names)), Tail(names))

\* headers.update(self.config['add_headers'])
DictUpdate_only(d, extra) == extra
DictUpdate(d, extra) ==
    [n \in (DOMAIN d) \cup (DOMAIN extra) |-> IF n \in DOMAIN extra THEN extra[n] ELSE d[n]]

\* headers['User-Agent'] = random.choice(self.config['user_agents'])
SetUserAgent(d, ua) == DictUpdate(d, "User-Agent" :> ua)

\* the User-Agent strings random.choice may draw (one placeholder when none is drawn)
UserAgentChoices(cfg) ==
    IF HasKey(cfg, "user_agents") /\ cfg.user_agents # <<>>
    THEN {cfg.user_agents[i] : i \in 1..Len(cfg.user_agents)}
    ELSE {""}

\* ProxyServer._prepare_headers(original_headers), with ua the string random.choice
\* draws: [ok |-> TRUE, headers |-> ...], or [ok |-> FALSE] when a configuration key
\* is missing (KeyError)
PrepareHeaders_addFirst(original_headers, cfg, ua) ==
    IF ~HasKey(cfg, "remove_headers") \/ ~HasKey(cfg, "add_headers")
    THEN [ok |-> FALSE, headers |-> <<>>]
    ELSE LET h1 == DictUpdate(original_headers, cfg.add_headers)
             h2 == PopAll(h1, cfg.remove_headers)
             h3 == DictPop(DictPop(h2, "Host"), "Content-Length")
         IN  IF "User-Agent" \notin DOMAIN h3
             THEN IF ~HasKey(cfg, "user_agents")
                  THEN [ok |-> FALSE, headers |-> <<>>]
                  ELSE IF cfg.user_agents # <<>>
                       THEN [ok |-> TRUE, headers |-> SetUserAgent(h3, ua)]
                       ELSE [ok |-> TRUE, headers |-> h3]
             ELSE [ok |-> TRUE, headers |-> h3]
PrepareHeaders(original_headers, cfg, ua) ==
    IF ~HasKey(cfg, "remove_headers") THEN [ok |-> FALSE, headers |-> <<>>]
    ELSE LET h1 == PopAll(original_headers, cfg.remove_headers)
             h2 == DictPop(DictPop(h1, "Host"), "Content-Length")
         IN  IF ~HasKey(cfg, "add_headers") THEN [ok |-> FALSE, headers |-> <<>>]
             ELSE LET h3 == DictUpdate(h2, cfg.add_headers)
                  IN  IF "User-Agent" \notin DOMAIN h3
                      THEN IF ~HasKey(cfg, "user_agents")
                           THEN [ok |-> FALSE, headers |-> <<>>]
                           ELSE IF cfg.user_agents # <<>>
                                THEN [ok |-> TRUE, headers |-> SetUserAgent(h3, ua)]
                                ELSE [ok |-> TRUE, headers |-> h3]
                      ELSE [ok |-> TRUE, headers |-> h3]

\* ---- the helpers applied on their own to a drawn request ----
HelperConfigs == {DefaultConfig, ProxyConfigDefaults, QuickStartConfig}

InitHelpers ==
    /\ inbound \in [args : QueryArgs, headers : InboundHeaders, path : Paths]
    /\ resolved = Unset
    /\ prepared = Unset

IdleHelpers ==
    /\ inbound = [args |-> <<>>, headers |-> <<>>, path |-> ""]
    /\ resolved = Unset
    /\ prepared = Unset

ResolveTarget ==
    /\ resolved = Unset
    /\ resolved' = [target |-> GetTargetUrl(inbound.args, inbound.headers, inbound.path)]
    /\ UNCHANGED <<inbound, prepared>>

TransformHeaders ==
    /\ prepared = Unset
    /\ \E ua \in UserAgentChoices(config) :
        prepared' = PrepareHeaders(inbound.headers, config, ua)
    /\ UNCHANGED <<inbound, resolved>>

\* ================================================ ProxyServer: the pipeline
Handlers == {"h1"}              \* threads running _handle_request
Clients == {"A", "B"}           \* request.remote_addr
ServerTickSteps == {30, 31}     \* clock readings 0, 30, 31, 60, 61

\* what the server is constructed with: nothing, or a configuration dictionary
GivenConfigs == {None, QuickStartConfig, Throttled(1), Throttled(2)}

\* self.config = config or self._default_config(): the dictionary passed is
\* taken whole, and the defaults only when none is passed
ConfigOr_completed(given) ==
    IF given = None THEN DefaultConfig
    ELSE [k \in (DOMAIN DefaultConfig) \cup (DOMAIN given) |->
            IF k \in DOMAIN given THEN given[k] ELSE DefaultConfig[k]]
ConfigOr(given) == IF given = None THEN DefaultConfig ELSE given

ServerConfigs == {ConfigOr(g) : g \in GivenConfigs}

\* minute_ago = current_time - 60
RateWindow == 60

\* the inbound requests the pipeline is driven with
PipelineRequests ==
    [ args : { <<>>, "url" :> "http://q.example/z" },
      headers : { <<>>, TestHeaders, "X-Target-URL" :> "http://h.example/y",
                  HeadersOf({"x-forwarded-for", "X-Real-Ip"}) },
      path : { "", "example.com/x" },
      remote_addr : Clients ]

NoRequest == [none |-> TRUE]

\* what the upstream may answer to a dispatch
UpstreamReplies ==
    { [status |-> 200, body |-> "ok",
       headers |-> ("Content-Type" :> "text/plain" @@ "Content-Encoding" :> "gzip")],
      [status |-> 302, body |-> "",
       headers |-> ("Location" :> "http://elsewhere.example/" @@ "Connection" :> "close")],
      [status |-> 404, body |-> "not found", headers |-> ("Content-Type" :> "text/plain")] }

IdleThread ==
    [ pc |-> "idle", request |-> NoRequest, tmp |-> 0, target |-> None,
      transformed |-> FALSE, headers |-> <<>>,
      checked |-> FALSE, prior |-> 0,
      sent |-> 0, wire |-> NoRequest, sentAt |-> 0,
      first |-> NoRequest, upstream |-> NoRequest,
      fault |-> "none", status |-> 0, response |-> NoRequest ]

\* how many requests of client c were let through with a timestamp >= t - RateWindow
AdmittedSince(log, c, t) ==
    Cardinality({i \in 1..Len(log) : log[i][1] = c /\ log[i][2] >= t - RateWindow})

\* ProxyServer._rate_limit_exceeded(): True when the request must be refused
RateLimitExceeded_inverted(cfg, c, t) == ~cfg.rate_limit.enabled
RateLimitExceeded(cfg, c, t) ==
    IF ~cfg.rate_limit.enabled THEN FALSE
    ELSE FALSE      \* "Placeholder implementation"

\* a request arrives and a handler thread starts _handle_request for it
ReceiveFrom(h, reqs) ==
    /\ th[h].pc = "idle"
    /\ arrivals < MaxArrivals
    /\ \E req \in reqs :
        th' = [th EXCEPT ![h] = [IdleThread EXCEPT !.pc = "count_read", !.request = req]]
    /\ arrivals' = arrivals + 1
    /\ UNCHANGED <<now, config, request_count, admitted>>

Receive(h) == ReceiveFrom(h, PipelineRequests)

\* self.request_count += 1, the read
CountRead(h) ==
    /\ th[h].pc = "count_read"
    /\ th' = [th EXCEPT ![h].tmp = request_count, ![h].pc = "count_write"]
    /\ UNCHANGED <<now, config, request_count, arrivals, admitted>>

\* self.request_count += 1, the write
CountWrite(h) ==
    /\ th[h].pc = "count_write"
    /\ request_count' = th[h].tmp + 1
    /\ th' = [th EXCEPT ![h].pc = "resolve"]
    /\ UNCHANGED <<now, config, arrivals, admitted>>

\* the except clauses of _handle_request: requests.RequestException gives 502,
\* any other Exception gives 500
ExceptStatus_all500(kind) == 500
ExceptStatus(kind) == IF kind = "transport" THEN 502 ELSE 500

\* an exception of the given kind is raised in thread h and caught
Raise_retry(h, kind) ==
    IF kind = "transport" /\ th[h].pc = "waiting" /\ th[h].sent = 1
    THEN [th EXCEPT ![h].sentAt = 0, ![h].pc = "dispatch"]
    ELSE [th EXCEPT ![h].fault = kind, ![h].status = ExceptStatus(kind), ![h].sentAt = 0,
                    ![h].pc = "done"]
Raise(h, kind) ==
    [th EXCEPT ![h].fault = kind, ![h].status = ExceptStatus(kind), ![h].sentAt = 0,
               ![h].pc = "done"]

\* target_url = self._get_target_url(path); if not target_url: return ..., 400
Resolve(h) ==
    /\ th[h].pc = "resolve"
    /\ LET req == th[h].request
           t   == GetTargetUrl(req.args, req.headers, req.path)
       IN  IF ~Truthy(t)
           THEN th' = [th EXCEPT ![h].target = t, ![h].status = 400, ![h].pc = "done"]
           ELSE th' = [th EXCEPT ![h].target = t, ![h].pc = "headers"]
    /\ UNCHANGED <<now, config, request_count, arrivals, admitted>>

\* headers = self._prepare_headers(request.headers); a KeyError ends in the
\* `except Exception` clause
Headers(h) ==
    /\ th[h].pc = "headers"
    /\ \E ua \in UserAgentChoices(config) :
        LET r == PrepareHeaders(th[h].request.headers, config, ua)
        IN  IF r.ok
            THEN th' = [th EXCEPT ![h].headers = r.headers, ![h].transformed = TRUE,
                                  ![h].pc = "ratelimit"]
            ELSE th' = Raise(h, "internal")
    /\ UNCHANGED <<now, config, request_count, arrivals, admitted>>

\* if self._rate_limit_exceeded(): return ..., 429
RateLimit(h) ==
    /\ th[h].pc = "ratelimit"
    /\ LET c     == th[h].request.remote_addr
           prior == AdmittedSince(admitted, c, now)
       IN  IF RateLimitExceeded(config, c, now)
           THEN /\ th' = [th EXCEPT ![h].checked = TRUE, ![h].prior = prior,
                                    ![h].status = 429, ![h].pc = "done"]
                /\ UNCHANGED admitted
           ELSE /\ th' = [th EXCEPT ![h].checked = TRUE, ![h].prior = prior,
                                    ![h].pc = "dispatch"]
                /\ admitted' = Append(admitted, <<c, now>>)
    /\ UNCHANGED <<now, config, request_count, arrivals>>

\* allow_redirects=False
AllowRedirects_follow == TRUE
AllowRedirects == FALSE

\* the timeout session.request() waits for an answer with: the call passes no
\* timeout argument, and the timeout attribute _configure_session sets on the
\* session is not one requests reads, so the call waits without limit
RequestTimeout(cfg) == None

IsRedirect(up) == up.status \in 300..399

\* params=request.args: the query parameters of the inbound request, `url` included
ForwardedParams_stripped(args) == DictPop(args, "url")
ForwardedParams(args) == args

\* response = self._make_request(..., data=request.get_data(), ...): reading the
\* inbound body may fail (500); otherwise the request goes out on the wire.
\* sentAt is the clock reading at which the pending call began.
Dispatch(h) ==
    /\ th[h].pc = "dispatch"
    /\ LET wire == [url |-> th[h].target.value, headers |-> th[h].headers,
                    params |-> ForwardedParams(th[h].request.args), proxies |-> SessionProxies(config)]
       IN  \/ th' = [th EXCEPT ![h].sent = @ + 1, ![h].wire = wire,
                               ![h].sentAt = now, ![h].pc = "waiting"]
           \/ th' = Raise(h, "internal")
    /\ UNCHANGED <<now, config, request_count, arrivals, admitted>>

\* session.request(...) returns: the upstream answered, or the call raised a
\* requests.RequestException (a timeout is one, when a timeout is in force) or
\* another exception.  With redirects followed the session would send a second
\* request to the Location and return what that one answers.
Answer(h) ==
    /\ th[h].pc = "waiting"
    /\ \/ \E up \in UpstreamReplies :
            IF AllowRedirects /\ IsRedirect(up)
            THEN \E final \in {r \in UpstreamReplies : ~IsRedirect(r)} :
                    th' = [th EXCEPT ![h].first = up, ![h].sent = @ + 1, ![h].sentAt = 0,
                                     ![h].upstream = final, ![h].pc = "build"]
            ELSE th' = [th EXCEPT ![h].first = up, ![h].upstream = up, ![h].sentAt = 0,
                                  ![h].pc = "build"]
       \/ th' = Raise(h, "transport")
       \/ th' = Raise(h, "internal")
       \/ /\ RequestTimeout(config) # None
          /\ now - th[h].sentAt >= RequestTimeout(config).value
          /\ th' = Raise(h, "transport")
    /\ UNCHANGED <<now, config, request_count, arrivals, admitted>>

\* response.headers.pop(name, None): response.headers is a werkzeug Headers
\* object, which matches header names without regard to letter case
HeadersPop_exact(hs, name) == DictPop(hs, name)
HeadersPop(hs, name) == [n \in {k \in DOMAIN hs : Lower(k) # Lower(name)} |-> hs[n]]

\* response.headers[name] = value: every entry of that name, in any letter
\* case, gives way to the one entry written
HeadersSet(hs, name, value) ==
    [n \in (DOMAIN HeadersPop(hs, name)) \cup {name} |-> IF n = name THEN value ELSE hs[n]]

\* ProxyServer._create_response(upstream_response)
CreateResponse(up) ==
    LET h0 == up.headers                            \* headers=dict(upstream_response.headers)
        h1 == HeadersPop(h0, "Content-Encoding")
        h2 == HeadersPop(h1, "Transfer-Encoding")
        h3 == HeadersPop(h2, "Connection")
    IN  [status |-> up.status, body |-> up.body,
         headers |-> HeadersSet(h3, "X-Proxied-By", "CustomProxy/1.0")]

\* return self._create_response(response); reading .content of the streamed
\* response may raise a requests.RequestException
Build(h) ==
    /\ th[h].pc = "build"
    /\ \/ LET out == CreateResponse(th[h].upstream)
          IN  th' = [th EXCEPT ![h].response = out, ![h].status = out.status,
                               ![h].pc = "done"]
       \/ th' = Raise(h, "transport")
    /\ UNCHANGED <<now, config, request_count, arrivals, admitted>>

\* the response has been sent; the thread is free for the next request
Return(h) ==
    /\ th[h].pc = "done"
    /\ th' = [th EXCEPT ![h] = IdleThread]
    /\ UNCHANGED <<now, config, request_count, arrivals, admitted>>

\* the clock while requests are in flight: were a timeout in force, a waiting
\* call would be ended no later than its deadline
ServerTick(d) ==
    /\ Tick(d)
    /\ \A h \in DOMAIN th :
        (th[h].pc = "waiting" /\ RequestTimeout(config) # None) =>
            now + d <= th[h].sentAt + RequestTimeout(config).value

\* ProxyServer.__init__(config)
InitServer ==
    /\ config \in ServerConfigs
    /\ request_count = 0
    /\ th = [h \in Handlers |-> IdleThread]
    /\ arrivals = 0
    /\ admitted = <<>>

IdleServer ==
    /\ config = DefaultConfig
    /\ request_count = 0
    /\ th = [h \in Handlers |-> IdleThread]
    /\ arrivals = 0
    /\ admitted = <<>>

\* ---- _create_response applied on its own to a drawn upstream response ----
\* header names an upstream may send; requests keeps one entry per name
\* whatever its letter case
ResponseHeaderNames ==
    { "Content-Type", "Content-Encoding", "content-encoding",
      "Transfer-Encoding", "transfer-encoding", "Connection", "connection",
      "X-Proxied-By", "x-proxied-by", "Location", "Set-Cookie" }

UpstreamValue(name) ==
    IF Lower(name) = "x-proxied-by" THEN "OtherProxy/2.0"
    ELSE IF Lower(name) = "location" THEN "http://elsewhere.example/"
    ELSE "upstream"

UpstreamHeaders ==
    { [n \in S |-> UpstreamValue(n)] :
        S \in {T \in SUBSET ResponseHeaderNames :
                 \A a, b \in T : Lower(a) = Lower(b) => a = b} }

UpstreamStatuses == {200, 204, 301, 302, 404, 500, 503}

UpstreamResponses ==
    [status : UpstreamStatuses, body : {"", "payload"}, headers : UpstreamHeaders]

InitResponse ==
    /\ upstream_response \in UpstreamResponses
    /\ built = Unset

IdleResponse ==
    /\ upstream_response = NoRequest
    /\ built = Unset

create_response ==
    /\ built = Unset
    /\ built' = CreateResponse(upstream_response)
    /\ UNCHANGED upstream_response

\* ========================================================= specifications
\* The rate limiter driven sequentially by a non-decreasing clock.
InitL == now = 0 /\ InitLimiter /\ IdleChain /\ IdleServer /\ IdleHelpers /\ IdleResponse
NextL ==
    \/ \E d \in TickSteps : Tick(d) /\ UNCHANGED <<limiterVars, chainVars, serverVars, helperVars, responseVars>>
    \/ \E id \in Identifiers : is_allowed(id) /\ UNCHANGED <<chainVars, serverVars, helperVars, responseVars>>
SpecLimiter == InitL /\ [][NextL]_vars

\* Both operations of the rate limiter, driven sequentially.
NextLR ==
    \/ \E d \in ServerTickSteps : Tick(d) /\ UNCHANGED <<limiterVars, chainVars, serverVars, helperVars, responseVars>>
    \/ \E id \in Identifiers : is_allowed(id) /\ UNCHANGED <<chainVars, serverVars, helperVars, responseVars>>
    \/ \E id \in Identifiers : get_reset_time(id) /\ UNCHANGED <<chainVars, serverVars, helperVars, responseVars>>
SpecLimiterOps == InitL /\ [][NextLR]_vars

\* The rate limiter called from two threads: the statements of is_allowed interleave.
NextLT ==
    \/ \E d \in ServerTickSteps : Tick(d) /\ UNCHANGED <<limiterVars, chainVars, serverVars, helperVars, responseVars>>
    \/ \E w \in LimiterThreads : is_allowed_begin(w) /\ UNCHANGED <<chainVars, serverVars, helperVars, responseVars>>
    \/ \E w \in LimiterThreads : is_allowed_while(w) /\ UNCHANGED <<chainVars, serverVars, helperVars, responseVars>>
    \/ \E w \in LimiterThreads : is_allowed_popleft(w) /\ UNCHANGED <<chainVars, serverVars, helperVars, responseVars>>
    \/ \E w \in LimiterThreads : is_allowed_check(w) /\ UNCHANGED <<chainVars, serverVars, helperVars, responseVars>>
    \/ \E w \in LimiterThreads : is_allowed_append(w) /\ UNCHANGED <<chainVars, serverVars, helperVars, responseVars>>
SpecLimiterThreads == InitL /\ [][NextLT]_vars

\* The chain manager driven sequentially.
InitC == now = 0 /\ IdleLimiter /\ InitChain /\ IdleServer /\ IdleHelpers /\ IdleResponse
NextC ==
    \/ get_next_proxy /\ UNCHANGED <<now, limiterVars, serverVars, helperVars, responseVars>>
    \/ \E p \in Endpoints : mark_proxy_failed(p) /\ UNCHANGED <<now, limiterVars, serverVars, helperVars, responseVars>>
SpecChain == InitC /\ [][NextC]_vars

\* The chain manager called from two threads, one get_next_proxy call each, with
\* mark_proxy_failed calls in between: the statements of get_next_proxy interleave.
ThreadPools == {ps \in Pools : \A i, j \in 1..Len(ps) : ps[i] = ps[j] => i = j}
InitCT ==
    /\ now = 0 /\ IdleLimiter /\ IdleServer /\ IdleHelpers /\ IdleResponse
    /\ InitChain
    /\ proxies \in ThreadPools
NextCT ==
    \/ \E w \in ChainThreads : get_next_begin(w) /\ UNCHANGED <<now, limiterVars, serverVars, helperVars, responseVars>>
    \/ \E w \in ChainThreads : get_next_load(w) /\ UNCHANGED <<now, limiterVars, serverVars, helperVars, responseVars>>
    \/ \E w \in ChainThreads : get_next_inc_read(w) /\ UNCHANGED <<now, limiterVars, serverVars, helperVars, responseVars>>
    \/ \E w \in ChainThreads : get_next_inc_write(w) /\ UNCHANGED <<now, limiterVars, serverVars, helperVars, responseVars>>
    \/ \E w \in ChainThreads : get_next_test(w) /\ UNCHANGED <<now, limiterVars, serverVars, helperVars, responseVars>>
    \/ \E w \in ChainThreads : get_next_reset(w) /\ UNCHANGED <<now, limiterVars, serverVars, helperVars, responseVars>>
    \/ \E i \in 1..Len(proxies) : mark_proxy_failed(proxies[i]) /\ UNCHANGED <<now, limiterVars, serverVars, helperVars, responseVars>>
SpecChainThreads == InitCT /\ [][NextCT]_vars

\* _get_target_url and _prepare_headers applied to a request drawn from bounded sets.
InitH ==
    /\ now = 0 /\ IdleLimiter /\ IdleChain
    /\ config \in HelperConfigs
    /\ request_count = 0 /\ th = [h \in Handlers |-> IdleThread]
    /\ arrivals = 0 /\ admitted = <<>>
    /\ InitHelpers
    /\ IdleResponse
NextH ==
    \/ ResolveTarget /\ UNCHANGED <<now, limiterVars, chainVars, serverVars, responseVars>>
    \/ TransformHeaders /\ UNCHANGED <<now, limiterVars, chainVars, serverVars, responseVars>>
SpecHelpers == InitH /\ [][NextH]_vars

\* The server: requests handled one after the other by _handle_request.
Init == now = 0 /\ IdleLimiter /\ IdleChain /\ InitServer /\ IdleHelpers /\ IdleResponse
Next ==
    \/ \E d \in ServerTickSteps :
        ServerTick(d) /\ UNCHANGED <<limiterVars, chainVars, serverVars, helperVars, responseVars>>
    \/ \E h \in Handlers : Receive(h) /\ UNCHANGED <<limiterVars, chainVars, helperVars, responseVars>>
    \/ \E h \in Handlers : CountRead(h) /\ UNCHANGED <<limiterVars, chainVars, helperVars, responseVars>>
    \/ \E h \in Handlers : CountWrite(h) /\ UNCHANGED <<limiterVars, chainVars, helperVars, responseVars>>
    \/ \E h \in Handlers : Resolve(h) /\ UNCHANGED <<limiterVars, chainVars, helperVars, responseVars>>
    \/ \E h \in Handlers : Headers(h) /\ UNCHANGED <<limiterVars, chainVars, helperVars, responseVars>>
    \/ \E h \in Handlers : RateLimit(h) /\ UNCHANGED <<limiterVars, chainVars, helperVars, responseVars>>
    \/ \E h \in Handlers : Dispatch(h) /\ UNCHANGED <<limiterVars, chainVars, helperVars, responseVars>>
    \/ \E h \in Handlers : Answer(h) /\ UNCHANGED <<limiterVars, chainVars, helperVars, responseVars>>
    \/ \E h \in Handlers : Build(h) /\ UNCHANGED <<limiterVars, chainVars, helperVars, responseVars>>
    \/ \E h \in Handlers : Return(h) /\ UNCHANGED <<limiterVars, chainVars, helperVars, responseVars>>
Spec == Init /\ [][Next]_vars

\* The server run with threaded=True: two handler threads run _handle_request
\* at once and their steps interleave.
Workers == {"h1", "h2"}
ThreadRequests ==
    { [args |-> <<>>, headers |-> <<>>, path |-> p, remote_addr |-> "A"] :
        p \in {"", "example.com/x"} }
InitT ==
    /\ now = 0 /\ IdleLimiter /\ IdleChain /\ IdleHelpers /\ IdleResponse
    /\ config = DefaultConfig
    /\ request_count = 0
    /\ th = [h \in Workers |-> IdleThread]
    /\ arrivals = 0
    /\ admitted = <<>>
NextT ==
    \/ \E h \in Workers : ReceiveFrom(h, ThreadRequests) /\ UNCHANGED <<limiterVars, chainVars, helperVars, responseVars>>
    \/ \E h \in Workers : CountRead(h) /\ UNCHANGED <<limiterVars, chainVars, helperVars, responseVars>>
    \/ \E h \in Workers : CountWrite(h) /\ UNCHANGED <<limiterVars, chainVars, helperVars, responseVars>>
    \/ \E h \in Workers : Resolve(h) /\ UNCHANGED <<limiterVars, chainVars, helperVars, responseVars>>
    \/ \E h \in Workers : Headers(h) /\ UNCHANGED <<limiterVars, chainVars, helperVars, responseVars>>
    \/ \E h \in Workers : RateLimit(h) /\ UNCHANGED <<limiterVars, chainVars, helperVars, responseVars>>
    \/ \E h \in Workers : Dispatch(h) /\ UNCHANGED <<limiterVars, chainVars, helperVars, responseVars>>
    \/ \E h \in Workers : Answer(h) /\ UNCHANGED <<limiterVars, chainVars, helperVars, responseVars>>
    \/ \E h \in Workers : Build(h) /\ UNCHANGED <<limiterVars, chainVars, helperVars, responseVars>>
    \/ \E h \in Workers : Return(h) /\ UNCHANGED <<limiterVars, chainVars, helperVars, responseVars>>
SpecThreads == InitT /\ [][NextT]_vars

\* The server next to a chain manager that holds a non-empty pool: requests
\* handled one after the other.
InitP ==
    /\ now = 0 /\ IdleLimiter /\ IdleHelpers /\ IdleResponse
    /\ InitChain
    /\ proxies \in ThreadPools \ {<<>>}
    /\ config \in {DefaultConfig, UpstreamConfig}
    /\ request_count = 0
    /\ th = [h \in Handlers |-> IdleThread]
    /\ arrivals = 0
    /\ admitted = <<>>
NextP ==
    \/ \E h \in Handlers : ReceiveFrom(h, ThreadRequests) /\ UNCHANGED <<limiterVars, chainVars, helperVars, responseVars>>
    \/ \E h \in Handlers : CountRead(h) /\ UNCHANGED <<limiterVars, chainVars, helperVars, responseVars>>
    \/ \E h \in Handlers : CountWrite(h) /\ UNCHANGED <<limiterVars, chainVars, helperVars, responseVars>>
    \/ \E h \in Handlers : Resolve(h) /\ UNCHANGED <<limiterVars, chainVars, helperVars, responseVars>>
    \/ \E h \in Handlers : Headers(h) /\ UNCHANGED <<limiterVars, chainVars, helperVars, responseVars>>
    \/ \E h \in Handlers : RateLimit(h) /\ UNCHANGED <<limiterVars, chainVars, helperVars, responseVars>>
    \/ \E h \in Handlers : Dispatch(h) /\ UNCHANGED <<limiterVars, chainVars, helperVars, responseVars>>
    \/ \E h \in Handlers : Answer(h) /\ UNCHANGED <<limiterVars, chainVars, helperVars, responseVars>>
    \/ \E h \in Handlers : Build(h) /\ UNCHANGED <<limiterVars, chainVars, helperVars, responseVars>>
    \/ \E h \in Handlers : Return(h) /\ UNCHANGED <<limiterVars, chainVars, helperVars, responseVars>>
SpecPool == InitP /\ [][NextP]_vars

\* _create_response applied to an upstream response drawn from bounded sets.
InitR ==
    /\ now = 0 /\ IdleLimiter /\ IdleChain /\ IdleServer /\ IdleHelpers
    /\ InitResponse
NextR ==
    \/ create_response /\ UNCHANGED <<now, limiterVars, chainVars, serverVars, helperVars>>
SpecResponse == InitR /\ [][NextR]_vars

\* ------------------------------------------------------------------------
\* _prepare_headers on the header sets the handler can be given.
\* _handle_request passes request.headers, and dict(original_headers) reads it
\* through the WSGI layer, which spells every name in title case whatever the
\* client wrote: host arrives as Host, X-Real-IP as X-Real-Ip.
WsgiName(name) ==
    CASE name \in {"Host", "host"} -> "Host"
      [] name \in {"Content-Length", "content-length"} -> "Content-Length"
      [] name \in {"User-Agent", "user-agent"} -> "User-Agent"
      [] name \in {"X-Real-IP", "X-Real-Ip"} -> "X-Real-Ip"
      [] name \in {"X-Forwarded-For", "x-forwarded-for"} -> "X-Forwarded-For"
      [] name \in {"Connection", "connection"} -> "Connection"
      [] name \in {"X-Target-URL", "X-Target-Url"} -> "X-Target-Url"
      [] OTHER -> name

\* header names as clients write them
ClientNames ==
    { "Host", "host", "Content-Length", "content-length", "User-Agent", "user-agent",
      "X-Real-IP", "X-Forwarded-For", "connection", "Accept", "Via" }

\* dict(request.headers): the names a client sent, as the handler reads them
WsgiHeaders(sent) == [n \in {WsgiName(m) : m \in DOMAIN sent} |-> "client"]

WsgiInbound ==
    { WsgiHeaders(HeadersOf(S)) :
        S \in {T \in SUBSET ClientNames : Cardinality(T) <= MaxHeaders + 1} }

\* configurations that carry the three header-policy keys
RemovalLists == { DefaultConfig.remove_headers, << "User-Agent", "Via" >>, <<>> }
AdditionMaps ==
    { DefaultConfig.add_headers, <<>>,
      "X-Real-IP" :> "198.51.100.7" @@ "X-Forwarded-For" :> "198.51.100.7",
      "User-Agent" :> "Fixed/1.0", "user-agent" :> "fixed/1.0",
      "Host" :> "masked.example" }
AgentPools == { DefaultConfig.user_agents, <<>> }

PolicyConfigs ==
    { [DefaultConfig EXCEPT !.remove_headers = r, !.add_headers = a, !.user_agents = u] :
        r \in RemovalLists, a \in AdditionMaps, u \in AgentPools }

\* the next request reaches the handler
NewRequest ==
    /\ prepared # Unset
    /\ inbound' \in [args : {<<>>}, headers : WsgiInbound, path : {""}]
    /\ prepared' = Unset
    /\ UNCHANGED resolved

InitX ==
    /\ now = 0 /\ IdleLimiter /\ IdleChain
    /\ config \in PolicyConfigs \cup {ProxyConfigDefaults}
    /\ request_count = 0 /\ th = [h \in Handlers |-> IdleThread]
    /\ arrivals = 0 /\ admitted = <<>>
    /\ inbound = [args |-> <<>>, headers |-> <<>>, path |-> ""]
    /\ resolved = Unset /\ prepared = Unset
    /\ IdleResponse
NextX ==
    \/ TransformHeaders /\ UNCHANGED <<now, limiterVars, chainVars, serverVars, responseVars>>
    \/ NewRequest /\ UNCHANGED <<now, limiterVars, chainVars, serverVars, responseVars>>
SpecTransform == InitX /\ [][NextX]_vars

\* ================================================================= claims
\* ---- rate limiter --------------------------------------------------------
\* the is_allowed calls of identifier id, in call order
RECURSIVE CallsOf(_, _)
CallsOf(log, id) ==
    IF log = <<>> THEN <<>>
    ELSE IF Head(log).op = "is_allowed" /\ Head(log).id = id
         THEN <<Head(log)>> \o CallsOf(Tail(log), id)
         ELSE CallsOf(Tail(log), id)

\* how many of the first n calls of the log cs were admitted with lo <= t <= hi
AdmittedIn(cs, n, lo, hi) ==
    Cardinality({i \in 1..n : cs[i].result /\ cs[i].t >= lo /\ cs[i].t <= hi})

\* C1: for one identifier, the number of admitted calls with a timestamp in any
\* trailing span [t - window_seconds, t] never exceeds max_requests.
C1_WindowNeverExceeded ==
    \A id \in Identifiers : \A t \in 0..now :
        LET cs == CallsOf(calls, id)
        IN  AdmittedIn(cs, Len(cs), t - window_seconds, t) <= max_requests

\* C1 witness: an identifier was admitted max_requests = 2 times, denied, and
\* admitted again after the window slid.
C1_Witness ==
    /\ max_requests = 2
    /\ \E id \in Identifiers :
        LET cs == CallsOf(calls, id)
        IN  /\ Len(cs) = 4
            /\ cs[1].result /\ cs[2].result /\ ~cs[3].result /\ cs[4].result
            /\ AdmittedIn(cs, 4, now - window_seconds, now) = 2

\* C2: is_allowed returns true exactly when fewer than max_requests earlier admitted
\* timestamps t of the identifier have t >= now - window_seconds; with
\* max_requests = 2, window_seconds = 60, calls at 0, 10, 20, 61 give T, T, F, T.
C2_AllowedIffUnderLimit ==
    \A id \in Identifiers :
        LET cs == CallsOf(calls, id)
        IN  /\ \A i \in 1..Len(cs) :
                cs[i].result <=>
                    (AdmittedIn(cs, i - 1, cs[i].t - window_seconds, cs[i].t)
                        < max_requests)
            /\ (/\ max_requests = 2 /\ window_seconds = 60 /\ Len(cs) = 4
                /\ cs[1].t = 0 /\ cs[2].t = 10 /\ cs[3].t = 20 /\ cs[4].t = 61)
               => (cs[1].result /\ cs[2].result /\ ~cs[3].result /\ cs[4].result)

\* C2 witness: the scenario of the specification has been run for identifier A.
C2_Witness ==
    LET cs == CallsOf(calls, "A")
    IN  /\ max_requests = 2 /\ window_seconds = 60 /\ Len(cs) = 4
        /\ cs[1].t = 0 /\ cs[2].t = 10 /\ cs[3].t = 20 /\ cs[4].t = 61
        /\ cs[4].result

\* C2 second case, used by the boundary check: a timestamp exactly window_seconds
\* old still counts.
C2_BoundaryReached ==
    \E id \in Identifiers :
        LET cs == CallsOf(calls, id)
        IN  \E i \in 1..Len(cs) : \E j \in 1..(i - 1) :
                /\ cs[j].result /\ ~cs[i].result
                /\ cs[j].t = cs[i].t - window_seconds
                /\ AdmittedIn(cs, i - 1, cs[i].t - window_seconds, cs[i].t) = max_requests
                /\ max_requests > 0

\* ---- chain manager -------------------------------------------------------
AllFailed(ps, failed) ==
    ps # <<>> /\ \A i \in 1..Len(ps) : ProxyId(ps[i]) \in failed

\* C8: with no endpoint failed and no mark_proxy_failed in between, any n
\* consecutive get_next_proxy calls on a pool of n endpoints return the positions
\* (start + k) mod n, k = 0..n-1: every position exactly once, in pool order.
C8_RoundRobin ==
    LET n == Len(proxies)
    IN  \A i \in 1..Len(nextLog) :
            (n >= 1 /\ nextLog[i].failed = {} /\ i + n - 1 <= Len(nextLog)) =>
                /\ \A k \in 0..(n - 1) :
                        nextLog[i + k].pos = (nextLog[i].start + k) % n
                /\ {nextLog[i + k].pos : k \in 0..(n - 1)} = 0..(n - 1)

\* C8 witness: on a pool of three, three consecutive calls starting at index 2
\* (wrapping around) have been made with an empty failed set.
C8_Witness ==
    /\ Len(proxies) = 3
    /\ \E i \in 1..Len(nextLog) :
        /\ nextLog[i].failed = {} /\ nextLog[i].start = 2
        /\ i + 2 <= Len(nextLog)

\* C9: when the identifier of every endpoint of a non-empty pool is failed,
\* get_next_proxy returns the endpoint at pool index 0 and leaves the failed set
\* empty, whatever the rotation index was.
C9_FullReset ==
    (last.op = "get_next_proxy" /\ AllFailed(proxies, last.failed)) =>
        /\ last.result = proxies[1]
        /\ last.pos = 0
        /\ failed_proxies = {}

\* C9 witness: a full reset happened on a pool of two or more distinct endpoints
\* while the rotation index was not 0.
C9_Witness ==
    /\ last.op = "get_next_proxy"
    /\ AllFailed(proxies, last.failed)
    /\ Len(proxies) >= 2
    /\ proxies[1] # proxies[Len(proxies)]
    /\ last.index # 0

\* C10: get_next_proxy returns None if and only if the pool is empty; on a
\* non-empty pool it returns an endpoint of the pool, however many are failed.
C10_NoneIffEmpty ==
    last.op = "get_next_proxy" =>
        /\ (last.result = None) <=> (proxies = <<>>)
        /\ proxies # <<>> => \E i \in 1..Len(proxies) : last.result = proxies[i]

\* C10 witness: get_next_proxy returned an endpoint although every endpoint of a
\* pool of three was marked failed.
C10_Witness ==
    /\ last.op = "get_next_proxy"
    /\ Len(proxies) = 3
    /\ AllFailed(proxies, last.failed)
    /\ Cardinality(last.failed) = 3
    /\ last.result # None

\* ---- request pipeline and helpers ----------------------------------------
\* C3: with rate limiting enabled, a request of a client already admitted
\* requests_per_minute times within the trailing window is answered 429 and is
\* not dispatched upstream.
C3_RateLimited429 ==
    \A h \in Handlers :
        (/\ th[h].checked
         /\ config.rate_limit.enabled
         /\ th[h].prior >= config.rate_limit.requests_per_minute)
        => /\ th[h].sent = 0
           /\ th[h].pc = "done" => th[h].status = 429

\* the lower-cased names of the configured removal list
RemovalSet(cfg) == {Lower(cfg.remove_headers[i]) : i \in 1..Len(cfg.remove_headers)}

\* C4: the output of the header transform contains no header whose name equals,
\* ignoring letter case, a name of the configured removal set.
C4_NoRemovedHeader ==
    (prepared # Unset /\ prepared.ok) =>
        \A n \in DOMAIN prepared.headers : Lower(n) \notin RemovalSet(config)

PrivacyNames ==
    { "x-forwarded-for", "x-real-ip", "via", "x-originating-ip",
      "x-forwarded-proto", "x-forwarded-host", "forwarded", "cf-connecting-ip" }

\* C5: with the default configuration a request is dispatched with none of
\* X-Forwarded-For, X-Real-IP, Via, X-Originating-IP (nor X-Forwarded-Proto,
\* X-Forwarded-Host, Forwarded, CF-Connecting-IP).
C5_PrivacyHeadersStripped ==
    \A h \in Handlers :
        (/\ config = DefaultConfig
         /\ th[h].sent > 0
         /\ DOMAIN TestHeaders \subseteq DOMAIN th[h].request.headers) =>
            \A n \in DOMAIN th[h].wire.headers : Lower(n) \notin PrivacyNames

\* C6: target resolution returns the first non-empty of the `url` query parameter,
\* the X-Target-URL header and the path; a path with a scheme is returned
\* unchanged, another non-empty path p as "http://" + p (example.com/x resolves
\* to http://example.com/x); with none of the three the result is None.
C6_TargetResolution ==
    resolved # Unset =>
        LET a  == inbound.args
            hd == inbound.headers
            p  == inbound.path
            t  == resolved.target
            q  == "url" \in DOMAIN a /\ a["url"] # ""
            x  == "X-Target-URL" \in DOMAIN hd /\ hd["X-Target-URL"] # ""
        IN  /\ q => t = [value |-> a["url"]]
            /\ (~q /\ x) => t = [value |-> hd["X-Target-URL"]]
            /\ (~q /\ ~x /\ p = "example.com/x") => t = [value |-> "http://example.com/x"]
            /\ (~q /\ ~x /\ p = "http://p.example/a") => t = [value |-> "http://p.example/a"]
            /\ (~q /\ ~x /\ p = "https://p.example/b") => t = [value |-> "https://p.example/b"]
            /\ (~q /\ ~x /\ p = "") => t = None

\* C6 witness: an empty `url` parameter and an empty X-Target-URL header were
\* passed over and the bare path example.com/x resolved to http://example.com/x.
C6_Witness ==
    /\ resolved # Unset
    /\ inbound.args = ("url" :> "")
    /\ "X-Target-URL" \in DOMAIN inbound.headers
    /\ inbound.path = "example.com/x"
    /\ resolved.target = [value |-> "http://example.com/x"]

\* C6, the precedence case: query parameter and header both given, the query wins.
C6_PrecedenceReached ==
    /\ resolved # Unset
    /\ inbound.args = ("url" :> "http://q.example/z")
    /\ "X-Target-URL" \in DOMAIN inbound.headers
    /\ inbound.headers["X-Target-URL"] = "http://h.example/y"
    /\ resolved.target = [value |-> "http://q.example/z"]

\* a request that names no target at all
NoTargetGiven(req) ==
    /\ "url" \notin DOMAIN req.args
    /\ "X-Target-URL" \notin DOMAIN req.headers
    /\ req.path = ""

\* C7: a request with no `url` parameter, no X-Target-URL header and an empty
\* path ends as 400; the rate-limit check is not run for it, its headers are not
\* transformed and nothing is dispatched upstream.
C7_NoTarget400 ==
    \A h \in Handlers :
        (th[h].pc # "idle" /\ NoTargetGiven(th[h].request)) =>
            /\ th[h].pc \in {"count_read", "count_write", "resolve", "done"}
            /\ th[h].pc = "done" => th[h].status = 400
            /\ ~th[h].checked
            /\ ~th[h].transformed
            /\ th[h].sent = 0

\* C7 witness: a request without target, carrying headers, has ended as 400 on a
\* server with rate limiting enabled.
C7_Witness ==
    \E h \in Handlers :
        /\ th[h].pc = "done"
        /\ NoTargetGiven(th[h].request)
        /\ th[h].request.headers = TestHeaders
        /\ config.rate_limit.enabled
        /\ th[h].status = 400
        /\ admitted = <<>>

\* ---- response builder ----------------------------------------------------
HopNames == {"content-encoding", "transfer-encoding", "connection"}

Built(t) == t.response # NoRequest

\* C12: a handled request ends in exactly one outcome: the response built from
\* the upstream's, or one of the statuses 400, 429, 502, 500.  A transport
\* failure of the dispatch or of the body read ends as 502, any other fault as
\* 500, and a fault never leaves the request anywhere but ended.
C12_EveryFaultMapped ==
    \A h \in DOMAIN th :
        LET t == th[h]
        IN  /\ t.fault # "none" => t.pc = "done"
            /\ t.pc = "done" =>
                /\ t.fault = "transport" => t.status = 502 /\ ~Built(t)
                /\ t.fault = "internal" => t.status = 500 /\ ~Built(t)
                /\ t.fault = "none" =>
                    \/ /\ Built(t)
                       /\ t.response = CreateResponse(t.upstream)
                       /\ t.status = t.upstream.status
                    \/ ~Built(t) /\ t.status = 400 /\ ~Truthy(t.target) /\ t.sent = 0
                    \/ ~Built(t) /\ t.status = 429 /\ t.checked /\ t.sent = 0

\* C12 witness: the upstream answered and the read of its body failed: 502.
C12_Witness ==
    \E h \in DOMAIN th :
        /\ th[h].pc = "done" /\ th[h].fault = "transport"
        /\ th[h].upstream # NoRequest /\ th[h].status = 502

\* C12, the other fault: an exception that is no transport failure ended as 500
\* after the header transform had succeeded.
C12_InternalReached ==
    \E h \in DOMAIN th :
        th[h].pc = "done" /\ th[h].fault = "internal" /\ th[h].transformed

\* C16: when the upstream answers with a 3xx status no further request is sent,
\* and the response built has that status and the upstream's Location value.
C16_RedirectNotFollowed ==
    \A h \in DOMAIN th :
        LET t == th[h]
        IN  (t.first # NoRequest /\ IsRedirect(t.first)) =>
                /\ t.sent = 1
                /\ t.upstream = t.first
                /\ Built(t) =>
                    /\ t.response.status = t.first.status
                    /\ "Location" \in DOMAIN t.response.headers
                    /\ t.response.headers["Location"] = t.first.headers["Location"]

\* C16 witness: a 302 with a Location was handed back as a 302.
C16_Witness ==
    \E h \in DOMAIN th :
        /\ th[h].pc = "done" /\ Built(th[h])
        /\ th[h].first.status = 302
        /\ th[h].response.status = 302
        /\ th[h].response.headers["Location"] = "http://elsewhere.example/"

\* C17: with rate limiting disabled the check lets every request through, no
\* request ends as 429, and no per-identifier rate-limit state comes to exist.
C17_DisabledAdmitsAll ==
    ~config.rate_limit.enabled =>
        /\ requests = <<>>
        /\ \A h \in DOMAIN th :
            /\ ~(th[h].status = 429 /\ ~Built(th[h]))
            /\ th[h].checked => th[h].pc \in {"dispatch", "waiting", "build", "done"}
            /\ (th[h].checked /\ th[h].pc = "done") => (th[h].sent >= 1 \/ th[h].fault = "internal")

\* C17 witness: rate limiting is disabled and the third request of one client
\* within the minute was dispatched.
C17_Witness ==
    /\ ~config.rate_limit.enabled
    /\ \E h \in DOMAIN th : th[h].checked /\ th[h].prior = 2 /\ th[h].sent = 1

\* C19: a request waiting for the upstream's answer has not waited longer than
\* the configured timeout: past it the request has ended (as 502).
C19_DispatchBoundedByTimeout ==
    \A h \in DOMAIN th :
        th[h].pc = "waiting" => now - th[h].sentAt <= config.timeout

\* C20: the rate-limit check precedes the header transform: a request whose
\* headers were transformed has passed the rate-limit check.
C20_RateLimitBeforeTransform ==
    \A h \in DOMAIN th : th[h].transformed => th[h].checked
\* ---- rate limiter: identifiers are independent ----------------------------
\* the deque and the results that the calls cs of one identifier produce on a
\* limiter no other identifier ever used
RECURSIVE AloneQueue(_, _)
AloneQueue(cs, n) ==
    IF n = 0 THEN <<>>
    ELSE IsAllowedResult("x" :> AloneQueue(cs, n - 1), "x", cs[n].t,
                         window_seconds, max_requests).queue

AloneResult(cs, n) ==
    IsAllowedResult("x" :> AloneQueue(cs, n - 1), "x", cs[n].t,
                    window_seconds, max_requests).result

\* the identifier the step operated on, when the step is a call
Touched(id) ==
    \/ calls' # calls /\ calls'[Len(calls')].id = id
    \/ reset' # reset /\ reset'.id = id

\* C18: is_allowed(A) and get_reset_time(A) leave the sequence of every other
\* identifier B as it was, and every result of is_allowed(A), like A's retained
\* sequence, is what A's own earlier calls alone produce.
C18_IdentifiersIndependent ==
    /\ [](\A id \in Identifiers :
            LET cs == CallsOf(calls, id)
            IN  /\ \A n \in 1..Len(cs) : cs[n].result = AloneResult(cs, n)
                /\ Lookup(requests, id) = AloneQueue(cs, Len(cs)))
    /\ [][\A b \in Identifiers :
            ~Touched(b) =>
                /\ Lookup(requests', b) = Lookup(requests, b)
                /\ (b \in DOMAIN requests') = (b \in DOMAIN requests)]_vars

\* C18 witness: B holds a timestamp, A was admitted and then refused, and
\* get_reset_time(A) was called after that.
C18_Witness ==
    /\ Lookup(requests, "B") # <<>>
    /\ \E i, j \in 1..Len(calls) :
        /\ i < j /\ calls[i].id = "A" /\ calls[j].id = "A"
        /\ calls[i].result /\ ~calls[j].result
    /\ reset # Unset /\ reset.id = "A" /\ reset.value > 0
\* ---- request counter ----------------------------------------------------
\* C13: once every request received has ended, the request counter equals its
\* initial value 0 plus the number of requests received, whatever their outcomes.
C13_CounterCountsEveryRequest ==
    (\A h \in DOMAIN th : th[h].pc = "idle") => request_count = arrivals
\* ---- rate limiter under concurrent callers --------------------------------
\* C14: with is_allowed called concurrently, the admitted calls of one
\* identifier with a timestamp in any trailing span [t - window_seconds, t] never
\* exceed max_requests, and no retained sequence holds more than max_requests.
C14_ConcurrentWindowBound ==
    \A id \in Identifiers :
        /\ Len(Lookup(requests, id)) <= max_requests
        /\ \A t \in 0..now :
            LET cs == CallsOf(calls, id)
            IN  AdmittedIn(cs, Len(cs), t - window_seconds, t) <= max_requests
\* ---- chain manager under concurrent callers -------------------------------
\* C15: with no endpoint ever marked failed and a pool of n >= 2 endpoints,
\* k <= n concurrent get_next_proxy calls return k distinct consecutive pool
\* positions (here from index 0) and advance the index by exactly k modulo n,
\* as the k calls in some serial order would.
C15_ConcurrentNextSerial ==
    LET k == Cardinality(ChainThreads)
        n == Len(proxies)
    IN  (/\ last.op = "init" /\ n >= 2 /\ k <= n
         /\ \A w \in ChainThreads : ct[w].pc = "returned") =>
            /\ {ct[w].result : w \in ChainThreads} = 0..(k - 1)
            /\ current_index = k % n
\* ---- rate limiter: reset time and retained sequences ----------------------
\* C23: when is_allowed(id) is denied at clock t, get_reset_time(id) read at t
\* gives r, and the next call for id is is_allowed(id) at t + r, that call is
\* admitted (max_requests >= 1).
C23_RetryAfterResetAdmitted ==
    \A i, j \in 1..Len(calls) :
        (/\ max_requests >= 1
         /\ i < j /\ calls[i].id = calls[j].id
         /\ \A k \in (i + 1)..(j - 1) : calls[k].id # calls[i].id
         /\ ~calls[i].result
         /\ reset # Unset /\ reset.id = calls[i].id /\ reset.t = calls[i].t
         /\ reset.after \in i..(j - 1)
         /\ calls[j].t = calls[i].t + reset.value) => calls[j].result

Retained(id) == {Lookup(requests, id)[k] : k \in 1..Len(Lookup(requests, id))}

\* C24: get_reset_time(id) at clock now returns 0 when id has no retained
\* timestamp and otherwise max(0, oldest retained + window_seconds - now); the
\* value is never negative and never greater than window_seconds.
C24_ResetTimeValue ==
    /\ [](reset # Unset => reset.value \in 0..window_seconds)
    /\ [][reset' # reset =>
            LET id == reset'.id
                oldest == CHOOSE m \in Retained(id) : \A x \in Retained(id) : m <= x
            IN  reset'.value =
                    IF Retained(id) = {} THEN 0
                    ELSE IF oldest + window_seconds - now > 0
                         THEN oldest + window_seconds - now ELSE 0]_vars

\* C24 witness: the read found a retained timestamp older than the window, not
\* yet evicted, and returned 0.
C24_Witness ==
    /\ reset # Unset /\ reset.t = now /\ reset.value = 0
    /\ \E x \in Retained(reset.id) : x + window_seconds < now

\* C24, the other case: a read returned a wait strictly between 0 and the window.
C24_PositiveReached ==
    reset # Unset /\ reset.value > 0 /\ reset.value < window_seconds

\* C25: an is_allowed call that returns denied leaves the identifier's retained
\* sequence exactly as it was: nothing appended, nothing evicted.
C25_DeniedChangesNothing ==
    [][(calls' # calls /\ ~calls'[Len(calls')].result) =>
            Lookup(requests', calls'[Len(calls')].id)
                = Lookup(requests, calls'[Len(calls')].id)]_vars

\* C25 witness: a call was denied while the identifier held a timestamp and the
\* clock had advanced since that timestamp was taken.
C25_Witness ==
    /\ calls # <<>>
    /\ LET c == calls[Len(calls)]
       IN  /\ ~c.result
           /\ Retained(c.id) # {}
           /\ \A x \in Retained(c.id) : x < c.t

Sorted(q) == \A a, b \in 1..Len(q) : a < b => q[a] <= q[b]

\* C26 as stated: in every reachable state each retained sequence is sorted
\* ascending and every retained timestamp is >= now - window_seconds.
C26_RetainedWithinWindow ==
    \A id \in Identifiers :
        /\ Sorted(Lookup(requests, id))
        /\ \A x \in Retained(id) : x >= now - window_seconds

\* C26 amended: each retained sequence is sorted ascending, and every retained
\* timestamp of an identifier is >= t - window_seconds, t being the clock
\* reading of that identifier's latest is_allowed call.
C26_RetainedWithinWindowOfLastCall ==
    \A id \in Identifiers :
        LET cs == CallsOf(calls, id)
        IN  /\ Sorted(Lookup(requests, id))
            /\ cs = <<>> => Retained(id) = {}
            /\ cs # <<>> => \A x \in Retained(id) : x >= cs[Len(cs)].t - window_seconds

\* C26 witness: an identifier holds two timestamps, the older exactly
\* window_seconds before its latest call.
C26_Witness ==
    \E id \in Identifiers :
        LET cs == CallsOf(calls, id)
        IN  /\ cs # <<>>
            /\ Len(Lookup(requests, id)) = 2
            /\ Lookup(requests, id)[1] = cs[Len(cs)].t - window_seconds

\* C27: the retained sequence of every identifier holds at most max_requests
\* timestamps.
C27_RetainedAtMostMax ==
    \A id \in Identifiers : Len(Lookup(requests, id)) <= max_requests

\* C27 witness: an identifier holds max_requests = 2 timestamps, its latest call
\* was denied and its reset time has been read since.
C27_Witness ==
    /\ max_requests = 2
    /\ \E id \in Identifiers :
        LET cs == CallsOf(calls, id)
        IN  /\ Len(Lookup(requests, id)) = 2
            /\ cs # <<>> /\ ~cs[Len(cs)].result
            /\ reset # Unset /\ reset.id = id /\ reset.after = Len(calls)

\* C27, max_requests = 0: every call is denied and nothing is ever retained.
C27_ZeroReached ==
    /\ max_requests = 0 /\ Len(calls) >= 2
    /\ \A id \in Identifiers : Retained(id) = {}
\* ---- chain manager: the scan ----------------------------------------------
\* C28: for a non-empty pool the rotation index is in [0, len(pool)).
C28_IndexInRange ==
    proxies # <<>> => current_index \in 0..(Len(proxies) - 1)

\* C28 witness: on a pool of three the index wrapped from 2 to 0 and a failure
\* was marked after that.
C28_Witness ==
    /\ Len(proxies) = 3 /\ current_index = 0
    /\ last.op = "mark_proxy_failed" /\ last.index = 0
    /\ failed_proxies # {}

\* positions of the pool whose endpoint identifier is not in the failed set
Healthy(ps, failed) == {p \in 0..(Len(ps) - 1) : ProxyId(ps[p + 1]) \notin failed}

\* C29: when some endpoint is not failed, get_next_proxy returns the endpoint at
\* the first position at or after the index, cyclically, whose identifier is not
\* failed, leaves the index one past that position modulo len, and leaves the
\* failed set as it was; no position is examined twice.
C29_FirstHealthyFromIndex ==
    (last.op = "get_next_proxy" /\ Healthy(proxies, last.failed) # {}) =>
        LET n == Len(proxies)
            d == (last.pos - last.index + n) % n
        IN  /\ last.pos \in Healthy(proxies, last.failed)
            /\ last.result = proxies[last.pos + 1]
            /\ \A j \in 0..(d - 1) : ((last.index + j) % n) \notin Healthy(proxies, last.failed)
            /\ current_index = (last.pos + 1) % n
            /\ failed_proxies = last.failed

\* C29 witness: two failed endpoints were skipped, the scan wrapping past the end
\* of the pool, and the third was returned.
C29_Witness ==
    /\ last.op = "get_next_proxy"
    /\ Len(proxies) = 3 /\ last.index = 2 /\ last.pos = 1
    /\ Cardinality(Healthy(proxies, last.failed)) = 1

\* C30: with endpoints of distinct identifiers and a fixed failed set leaving
\* h >= 1 endpoints healthy, any h consecutive get_next_proxy calls return each
\* healthy position exactly once.
C30_EachHealthyOncePerRound ==
    LET hs == Healthy(proxies, failed_proxies)
        h  == Cardinality(hs)
    IN  (/\ \A a, b \in 1..Len(proxies) :
                ProxyId(proxies[a]) = ProxyId(proxies[b]) => a = b
         /\ h >= 1
         /\ \A i \in 1..Len(nextLog) : nextLog[i].failed = failed_proxies) =>
            \A i \in 1..Len(nextLog) :
                i + h - 1 <= Len(nextLog) =>
                    {nextLog[j].pos : j \in i..(i + h - 1)} = hs

\* C30 witness: three distinct endpoints, the middle one failed, and four calls
\* made from starting index 2 since the failure was marked.
C30_Witness ==
    /\ Len(proxies) = 3
    /\ Healthy(proxies, failed_proxies) = {0, 2}
    /\ Len(nextLog) >= 4
    /\ nextLog[1].start = 2
    /\ \A i \in 1..Len(nextLog) : nextLog[i].failed = failed_proxies
\* ---- pipeline: dispatches ------------------------------------------------
\* C21: a request dispatched while a non-empty upstream pool is configured has
\* had get_next_proxy called for it, and its dispatch is routed through the
\* endpoint that call returned.
C21_ChainConsultedBeforeDispatch ==
    \A h \in DOMAIN th :
        (th[h].sent >= 1 /\ proxies # <<>>) =>
            /\ last.op = "get_next_proxy"
            /\ th[h].wire.proxies = last.result

\* C22: a request causes at most one upstream dispatch, whether that dispatch
\* failed or succeeded, and a request ended as 400 or 429 caused none.
C22_AtMostOneDispatch ==
    \A h \in DOMAIN th :
        /\ th[h].sent <= 1
        /\ (th[h].pc = "done" /\ th[h].fault = "none" /\ ~Built(th[h])
                /\ th[h].status \in {400, 429}) => th[h].sent = 0
        /\ th[h].pc \in {"waiting", "build"} => th[h].sent = 1
        /\ (th[h].pc = "done" /\ (Built(th[h]) \/ th[h].fault = "transport")) => th[h].sent = 1

\* C22 witness: the dispatch itself failed and the request ended as 502 after
\* that single dispatch.
C22_Witness ==
    \E h \in DOMAIN th :
        /\ th[h].pc = "done" /\ th[h].status = 502 /\ th[h].fault = "transport"
        /\ th[h].upstream = NoRequest /\ th[h].sent = 1

\* C22, no dispatch: a request without a target ended as 400 with nothing sent.
C22_NoneReached ==
    \E h \in DOMAIN th :
        th[h].pc = "done" /\ th[h].status = 400 /\ th[h].sent = 0
\* ---- chain manager: failures and the full reset ---------------------------
\* C31: mark_proxy_failed(e) changes only the failed set, which becomes the failed
\* set plus the identifier of e; the rotation index and the pool are unchanged, and
\* marking e again (its identifier being in the set already) leaves the state of
\* the chain as the first call left it.
C31_MarkFailedIdempotent ==
    [][\A e \in Endpoints :
          mark_proxy_failed(e) =>
              /\ failed_proxies' = failed_proxies \cup {ProxyId(e)}
              /\ current_index' = current_index
              /\ proxies' = proxies
              /\ (ProxyId(e) \in failed_proxies =>
                      <<proxies, current_index, failed_proxies>>'
                          = <<proxies, current_index, failed_proxies>>)]_vars

\* C31 witness: an endpoint already in the failed set was marked again, on a pool
\* of two or more whose rotation index had advanced, next to another failure.
C31_Witness ==
    /\ last.op = "mark_proxy_failed"
    /\ last.failed = failed_proxies
    /\ Cardinality(failed_proxies) >= 2
    /\ Len(proxies) >= 2 /\ current_index = 1

\* C36: a get_next_proxy call that finds every endpoint failed clears the failed
\* set, returns the endpoint at position 0 and leaves the rotation index at its
\* value before the call; when that value was 0, the call that follows returns
\* position 0 again.
C36_ResetKeepsIndex ==
    /\ (/\ last.op = "get_next_proxy" /\ proxies # <<>>
        /\ Healthy(proxies, last.failed) = {}) =>
            /\ current_index = last.index
            /\ last.pos = 0 /\ last.result = proxies[1]
            /\ failed_proxies = {}
    /\ \A i \in 1..(Len(nextLog) - 1) :
          (/\ proxies # <<>>
           /\ Healthy(proxies, nextLog[i].failed) = {}
           /\ nextLog[i].start = 0) =>
              /\ nextLog[i].pos = 0
              /\ nextLog[i + 1].start = 0 /\ nextLog[i + 1].failed = {}
              /\ nextLog[i + 1].pos = 0

\* C36 witness: on a pool of three with every endpoint failed and the index at 0,
\* the call that reset the failed set was followed by another call.
C36_Witness ==
    /\ Len(proxies) = 3 /\ Len(nextLog) >= 2
    /\ Healthy(proxies, nextLog[1].failed) = {}
    /\ nextLog[1].start = 0 /\ nextLog[2].pos = 0

\* C36 witness, index other than 0: the reset happened with the index at 2 and
\* left it there.
C36_NonZeroReached ==
    /\ last.op = "get_next_proxy" /\ Len(proxies) = 3
    /\ Healthy(proxies, last.failed) = {}
    /\ last.index = 2 /\ current_index = 2
\* ---- header transform: additions, User-Agent, framing headers -------------
\* the names of S, lower-cased
LowerAll(S) == {Lower(n) : n \in S}

\* the headers as they stand after the additions step
AfterAdditions(original_headers, cfg) ==
    DictUpdate(DictPop(DictPop(PopAll(original_headers, cfg.remove_headers), "Host"),
                       "Content-Length"),
               cfg.add_headers)

\* the names of d that equal name ignoring letter case
Named(d, name) == {n \in DOMAIN d : Lower(n) = Lower(name)}

\* C32: for every entry (name, value) of the additions map the output of the
\* transform holds exactly one header whose name equals name ignoring letter case,
\* and its value is value.
C32_AdditionsExactlyOnce ==
    (prepared # Unset /\ prepared.ok) =>
        \A a \in DOMAIN config.add_headers :
            /\ Cardinality(Named(prepared.headers, a)) = 1
            /\ \A n \in Named(prepared.headers, a) :
                   prepared.headers[n] = config.add_headers[a]

\* C33: the output holds exactly one User-Agent header, ignoring letter case,
\* whenever the pool is non-empty or one was present after the additions; one
\* present after the additions is kept unchanged, otherwise the value set is a
\* member of the pool; with an empty pool and none present, none is added.
C33_OneUserAgent ==
    (prepared # Unset /\ prepared.ok) =>
        LET after == AfterAdditions(inbound.headers, config)
            had   == Named(after, "User-Agent")
            out   == Named(prepared.headers, "User-Agent")
            pool  == {config.user_agents[i] : i \in 1..Len(config.user_agents)}
        IN  /\ (had # {} \/ pool # {}) => Cardinality(out) = 1
            /\ \A n \in had : n \in out /\ prepared.headers[n] = after[n]
            /\ (had = {} /\ pool # {}) => \A n \in out : prepared.headers[n] \in pool
            /\ (had = {} /\ pool = {}) => out = {}

\* C34: when the additions map names neither Host nor Content-Length, the output
\* of the transform holds no Host and no Content-Length header in any letter case.
C34_NoHostNoContentLength ==
    (/\ prepared # Unset /\ prepared.ok
     /\ LowerAll(DOMAIN config.add_headers) \cap {"host", "content-length"} = {}) =>
        LowerAll(DOMAIN prepared.headers) \cap {"host", "content-length"} = {}

\* C34 witness: a request that carried Host and Content-Length next to another
\* header was transformed under additions that name neither.
C34_Witness ==
    /\ prepared # Unset /\ prepared.ok
    /\ {"Host", "Content-Length", "Accept"} \subseteq DOMAIN inbound.headers
    /\ LowerAll(DOMAIN config.add_headers) \cap {"host", "content-length"} = {}
    /\ "Accept" \in DOMAIN prepared.headers

\* C35: the transform changes neither the inbound mapping it is given nor the
\* configuration, whatever the number of requests, and an inbound header that is
\* not in the removal list, is not Host or Content-Length and is not named in the
\* additions map is in the output with its value unchanged.
C35_TransformIsPure ==
    /\ [](( prepared # Unset /\ prepared.ok) =>
            \A n \in DOMAIN inbound.headers :
                (/\ \A i \in 1..Len(config.remove_headers) : config.remove_headers[i] # n
                 /\ n \notin {"Host", "Content-Length"}
                 /\ n \notin DOMAIN config.add_headers) =>
                    /\ n \in DOMAIN prepared.headers
                    /\ prepared.headers[n] = inbound.headers[n])
    /\ [][/\ config' = config
          /\ (prepared = Unset /\ prepared' # Unset) => inbound' = inbound]_vars

\* C35 witness: of a second request's headers one was removed and two were passed
\* through, under the configuration the first request met.
C35_Witness ==
    /\ prepared # Unset /\ prepared.ok
    /\ DOMAIN inbound.headers = {"Host", "Accept", "Via"}
    /\ config.remove_headers = DefaultConfig.remove_headers
    /\ {"Accept", "Via"} \subseteq DOMAIN prepared.headers
    /\ "Host" \notin DOMAIN prepared.headers

\* C38: a name that is in the removal list and in the additions map is in the
\* output with the value of the additions map.
C38_AdditionsAfterRemoval ==
    (prepared # Unset /\ prepared.ok) =>
        \A a \in DOMAIN config.add_headers :
            Lower(a) \in RemovalSet(config) =>
                /\ a \in DOMAIN prepared.headers
                /\ prepared.headers[a] = config.add_headers[a]

\* C38 witness: X-Forwarded-For is in the removal list and in the additions map,
\* the request carried it, and the output has it with the configured value.
C38_Witness ==
    /\ prepared # Unset /\ prepared.ok
    /\ "X-Forwarded-For" \in DOMAIN inbound.headers
    /\ "X-Forwarded-For" \in DOMAIN config.add_headers
    /\ "x-forwarded-for" \in RemovalSet(config)
    /\ prepared.headers["X-Forwarded-For"] = "198.51.100.7"
C39_TargetInputsForwarded ==
    \A h \in Handlers :
        th[h].sent > 0 =>
            LET req  == th[h].request
                wire == th[h].wire
                byParam  == Truthy(MappingGet(req.args, "url"))
                byHeader == ~byParam /\ Truthy(MappingGet(req.headers, "X-Target-URL"))
            IN  /\ byParam =>
                    /\ wire.url = req.args["url"]
                    /\ "url" \in DOMAIN wire.params
                    /\ wire.params["url"] = req.args["url"]
                /\ (byHeader /\ "x-target-url" \notin RemovalSet(config)) =>
                    /\ wire.url = req.headers["X-Target-URL"]
                    /\ \E n \in DOMAIN wire.headers :
                          /\ Lower(n) = "x-target-url"
                          /\ wire.headers[n] = req.headers["X-Target-URL"]

\* C39 witness: a request whose target came from the `url` parameter is on the wire.
C39_Witness ==
    /\ th["h1"].sent > 0
    /\ Truthy(MappingGet(th["h1"].request.args, "url"))
    /\ th["h1"].wire.url = "http://q.example/z"

\* C39 witness, header: a request whose target came from X-Target-URL is on the wire.
C39_HeaderReached ==
    /\ th["h1"].sent > 0
    /\ ~Truthy(MappingGet(th["h1"].request.args, "url"))
    /\ th["h1"].wire.url = "http://h.example/y"
====
